---- MODULE Spec2Model ----
(***************************************************************************)
(* Model of tlshunter (cmd/tlshunter/tlshunter.go, internal/manifest):     *)
(* main's per-file pipeline ParseAPK -> NSC loading -> Analyze/check ->    *)
(* aggregation, over decoded manifests and network security configs.       *)
(*                                                                         *)
(* Strings that the code inspects character by character (certificate      *)
(* src, pin-set expiration, domain patterns, certificate subjects) are     *)
(* sequences of one-character strings.  A *bool of the Go structs is one   *)
(* of "Unset" (nil), "True", "False".  A risk reason built by fmt.Sprintf  *)
(* is the sequence of its fragments, in order.  Time is counted in hours   *)
(* since the Unix epoch.                                                   *)
(***************************************************************************)
EXTENDS Integers, Sequences, FiniteSets, TLC

VARIABLES args, idx, pc, parsed, nsc, clock, analysis, riskMap, printed

vars == <<args, idx, pc, parsed, nsc, clock, analysis, riskMap, printed>>

----------------------------------------------------------------------------
(* Bounds of the model *)

\* SDK integers explored: SDKMargin below 1 and above the highest mapped one
SDKMargin == 7
\* longest certificates list of a base-config trust-anchors
MaxCerts == 2
\* most domain-config nodes in a forest, and deepest nesting
MaxNodes == 3
MaxDepth == 3

----------------------------------------------------------------------------
(* Go values *)

Tri == {"Unset", "True", "False"}

\* a Go pointer is the empty sequence (nil) or a one-element sequence
Nil == <<>>
IsNil(p) == Len(p) = 0
Ptr(v) == <<v>>
Deref(p) == p[1]

\* strings compared or scanned by the code, as character sequences
S_system == <<"s","y","s","t","e","m">>
S_user == <<"u","s","e","r">>
S_http == <<"h","t","t","p">>
S_proxy == <<"p","r","o","x","y">>
S_at == <<"@">>

\* strings.HasPrefix
HasPrefix(s, p) == Len(s) >= Len(p) /\ SubSeq(s, 1, Len(p)) = p

\* strings.TrimPrefix
TrimPrefix(s, p) == IF HasPrefix(s, p) THEN SubSeq(s, Len(p) + 1, Len(s)) ELSE s

\* strings.Contains
Contains(s, sub) ==
    \E k \in 0..(Len(s) - Len(sub)) : SubSeq(s, k + 1, k + Len(sub)) = sub

Upper == <<"A","B","C","D","E","F","G","H","I","J","K","L","M","N","O","P","Q","R","S","T","U","V","W","X","Y","Z">>
Lower == <<"a","b","c","d","e","f","g","h","i","j","k","l","m","n","o","p","q","r","s","t","u","v","w","x","y","z">>

LowerChar(c) ==
    IF \E k \in 1..26 : Upper[k] = c
    THEN Lower[CHOOSE k \in 1..26 : Upper[k] = c]
    ELSE c

\* strings.ToLower
ToLower(s) == [k \in 1..Len(s) |-> LowerChar(s[k])]

----------------------------------------------------------------------------
(* SDK version mapping and platform defaults *)

SDKHighest == 33

\* the mapping without its case for SDK 29
SDKVersionToAndroidMajorWithout29(sdkVersion) ==
    CASE sdkVersion \in 1..4 -> 1
      [] sdkVersion \in 5..10 -> 2
      [] sdkVersion \in 11..13 -> 3
      [] sdkVersion \in 14..20 -> 4
      [] sdkVersion \in 21..22 -> 5
      [] sdkVersion = 23 -> 6
      [] sdkVersion \in 24..25 -> 7
      [] sdkVersion \in 26..27 -> 8
      [] sdkVersion = 28 -> 9
      [] sdkVersion = 30 -> 11
      [] sdkVersion \in 31..32 -> 12
      [] sdkVersion = SDKHighest -> 13
      [] OTHER -> 13

SDKVersionToAndroidMajor(sdkVersion) ==
    CASE sdkVersion \in 1..4 -> 1
      [] sdkVersion \in 5..10 -> 2
      [] sdkVersion \in 11..13 -> 3
      [] sdkVersion \in 14..20 -> 4
      [] sdkVersion \in 21..22 -> 5
      [] sdkVersion = 23 -> 6
      [] sdkVersion \in 24..25 -> 7
      [] sdkVersion \in 26..27 -> 8
      [] sdkVersion = 28 -> 9
      [] sdkVersion = 29 -> 10
      [] sdkVersion = 30 -> 11
      [] sdkVersion \in 31..32 -> 12
      [] sdkVersion = SDKHighest -> 13
      [] OTHER -> 13

\* Analyze: Android 7+ supports NSC, Android 9+ disables cleartext by default
AndroidDefaults(targetVersion) ==
    [AllowCleartext |-> targetVersion < 9, NSCPresence |-> targetVersion >= 7]

----------------------------------------------------------------------------
(* strconv.ParseInt(res, 16, 32) *)

HexDigits == <<"0","1","2","3","4","5","6","7","8","9","a","b","c","d","e","f">>
HexUpper == <<"0","1","2","3","4","5","6","7","8","9","A","B","C","D","E","F">>

IsHex(c) == \E k \in 1..16 : HexDigits[k] = c \/ HexUpper[k] = c

HexVal(c) == (CHOOSE k \in 1..16 : HexDigits[k] = c \/ HexUpper[k] = c) - 1

MaxInt32 == 2147483647

\* the value of the hex digits, or -1 when it exceeds MaxInt32
RECURSIVE HexNum(_)
HexNum(s) ==
    IF s = <<>> THEN 0
    ELSE LET acc == HexNum(SubSeq(s, 1, Len(s) - 1))
             d == HexVal(s[Len(s)])
         IN  IF acc = -1 \/ acc > (MaxInt32 - d) \div 16 THEN -1 ELSE 16 * acc + d

RECURSIVE TrimZeros(_)
TrimZeros(s) == IF s # <<>> /\ s[1] = "0" THEN TrimZeros(Tail(s)) ELSE s

\* the digits of 2^31, the one magnitude beyond MaxInt32 that "-" admits
IsMinInt32(digits) == TrimZeros(digits) = <<"8","0","0","0","0","0","0","0">>

\* [err |-> TRUE] or [err |-> FALSE, val |-> the signed 32-bit value]
ParseInt(s) ==
    LET neg == s # <<>> /\ s[1] = "-"
        digits == IF s # <<>> /\ s[1] \in {"+", "-"} THEN Tail(s) ELSE s
    IN  IF digits = <<>> \/ \E k \in 1..Len(digits) : ~IsHex(digits[k])
        THEN [err |-> TRUE]
        ELSE LET un == HexNum(digits)
             IN  IF un = -1
                 THEN IF neg /\ IsMinInt32(digits)
                      THEN [err |-> FALSE, val |-> (0 - MaxInt32) - 1]
                      ELSE [err |-> TRUE]
                 ELSE [err |-> FALSE, val |-> IF neg THEN 0 - un ELSE un]

\* the conversion uint32(resId), as <<high 16 bits, low 16 bits>>
Uint32(v) == <<(v \div 65536) % 65536, v % 65536>>

----------------------------------------------------------------------------
(* time.Parse("2006-01-02", s) and time.Until(t).Hours() *)

Digits == <<"0","1","2","3","4","5","6","7","8","9">>

IsDigit(c) == \E k \in 1..10 : Digits[k] = c

DigitVal(c) == (CHOOSE k \in 1..10 : Digits[k] = c) - 1

RECURSIVE Atoi(_)
Atoi(s) == IF s = <<>> THEN 0 ELSE 10 * Atoi(SubSeq(s, 1, Len(s) - 1)) + DigitVal(s[Len(s)])

IsLeap(y) == y % 4 = 0 /\ (y % 100 # 0 \/ y % 400 = 0)

DaysIn(m, y) ==
    IF m = 2 THEN (IF IsLeap(y) THEN 29 ELSE 28)
    ELSE IF m \in {4, 6, 9, 11} THEN 30 ELSE 31

\* days from 1970-01-01 to the civil date y-m-d
DaysFromCivil(y, m, d) ==
    LET yy == IF m <= 2 THEN y - 1 ELSE y
        era == yy \div 400
        yoe == yy - era * 400
        mp == IF m > 2 THEN m - 3 ELSE m + 9
        doy == (153 * mp + 2) \div 5 + d - 1
        doe == yoe * 365 + yoe \div 4 - yoe \div 100 + doy
    IN  era * 146097 + doe - 719468

\* [err |-> TRUE] or [err |-> FALSE, hours |-> midnight UTC of the date]
ParseDate(s) ==
    IF Len(s) # 10
       \/ \E k \in {1, 2, 3, 4, 6, 7, 9, 10} : ~IsDigit(s[k])
       \/ s[5] # "-" \/ s[8] # "-"
    THEN [err |-> TRUE]
    ELSE LET y == Atoi(SubSeq(s, 1, 4))
             m == Atoi(SubSeq(s, 6, 7))
             d == Atoi(SubSeq(s, 9, 10))
         IN  IF m < 1 \/ m > 12 \/ d < 1 \/ d > DaysIn(m, y)
             THEN [err |-> TRUE]
             ELSE [err |-> FALSE, hours |-> 24 * DaysFromCivil(y, m, d)]

\* time.Until(expiration).Hours(), read at time now
UntilHours(expiration, now) == expiration.hours - now

ExpirationThresholdHours == 10 * 24

----------------------------------------------------------------------------
(* Risks *)

RiskNSCMissing == "RiskNSCMissing"
RiskCleartext == "RiskCleartext"
RiskUserAnchors == "RiskUserAnchors"
RiskAnchorsOverridePinning == "RiskAnchorsOverridePinning"
RiskUnpinned == "RiskUnpinned"
RiskPinningExpiration == "RiskPinningExpiration"
RiskProxyAnchors == "RiskProxyAnchors"
RiskMalformedNSC == "RiskMalformedNSC"

RiskType == {RiskNSCMissing, RiskCleartext, RiskUserAnchors, RiskAnchorsOverridePinning,
             RiskUnpinned, RiskPinningExpiration, RiskProxyAnchors, RiskMalformedNSC}

\* lines 136-155: the switch has no case for RiskPinningExpiration
Unknown == "(unknown)"

Description(t) ==
    CASE t = RiskNSCMissing -> "Android network security configuration is missing."
      [] t = RiskCleartext -> "Allow cleartext traffic to be transferred."
      [] t = RiskUserAnchors -> "Allow users to trust 3rd-party CAs."
      [] t = RiskAnchorsOverridePinning -> "Trust anchors override pinned certificates."
      [] t = RiskUnpinned -> "Does not pin any certificates."
      [] t = RiskProxyAnchors -> "Trust anchors contain proxy tool CA."
      [] t = RiskMalformedNSC -> "Domains in NSC contain invalid hostnames."
      [] OTHER -> Unknown

Risk(type, reason) == [Type |-> type, Reason |-> reason]

\* A reason is the sequence of the fragments fmt.Sprintf writes, each fragment
\* a character sequence or a one-element sequence holding a literal text
Text(text) == <<text>>

\* %d
Itoa(i) == <<ToString(i)>>

\* fmt.Sprintf("%s<text>", section): the section's fragments, then the text
Sprintf1(section, text) == section \o <<Text(text)>>

\* fmt.Sprintf("%s<before>%d<after>", section, i)
SprintfIndex(section, before, i, after) == section \o <<Text(before), Itoa(i), Text(after)>>

\* fmt.Sprintf(`%s<before>%s".`, section, value)
SprintfQuoted(section, before, value) == section \o <<Text(before), value, Text("\".")>>

----------------------------------------------------------------------------
(* Resolution of an embedded certificate: check(), lines 210-231 and 285-306 *)

\* what the resolution of one certificates entry ends in
Unresolved == [st |-> "continue"]
Panicked == [st |-> "panic"]
Resolved(subject) == [st |-> "cert", subject |-> subject]

\* a.resources.GetResourceEntry(id): the table maps the ids it knows to the
\* file name that entry.GetValue().String() gives
GetResourceEntry(resources, id) ==
    IF id \in DOMAIN resources THEN [err |-> FALSE, filename |-> resources[id]]
    ELSE [err |-> TRUE]

\* a.zip.File[filename]: nil when the archive has no such entry
ZipFile(zip, filename) == IF filename \in DOMAIN zip THEN Ptr(zip[filename]) ELSE Nil

ResolveCertificate(a, src) ==
    LET res == TrimPrefix(src, S_at)
        resId == ParseInt(res)
    IN  IF resId.err THEN Unresolved
        ELSE LET entry == GetResourceEntry(a.resources, Uint32(resId.val))
             IN  IF entry.err THEN Unresolved
                 ELSE LET file == ZipFile(a.zip, entry.filename)
                      IN  IF IsNil(file) THEN Panicked  \* Open() on a nil *ZipReaderFile
                          ELSE IF Deref(file).open # "ok" THEN Unresolved
                          ELSE IF Deref(file).read # "ok" THEN Unresolved
                          ELSE IF ~Deref(file).x509 THEN Unresolved
                          ELSE Resolved(Deref(file).subject)

\* strings.Contains(strings.ToLower(cert.Subject.String()), "proxy")
IsProxySubject(subject) == Contains(ToLower(subject), S_proxy)

----------------------------------------------------------------------------
(* check(): NSC present, base config (lines 165-242) *)

IsUserSrc(certs) == certs.Src = S_user

OverridesPins(certs) == certs.OverridePins = "True"

IsEmbeddedSrc(certs) == certs.Src # S_system /\ certs.Src # S_user

ProxyRiskType == RiskUserAnchors

\* the body of the loop over anchors.Certificates, from entry k on (index k - 1)
RECURSIVE BaseAnchorsLoop(_, _, _, _, _)
BaseAnchorsLoop(a, baseSection, certificates, k, ret) ==
    IF k > Len(certificates) THEN [st |-> "ok", ret |-> ret]
    ELSE LET certs == certificates[k]
             section == SprintfIndex(baseSection, " trust anchors (index: ", k - 1, ")")
             r1 == IF IsUserSrc(certs)
                   THEN Append(ret, Risk(RiskUserAnchors, Sprintf1(section, " allow user CAs.")))
                   ELSE ret
             r2 == IF OverridesPins(certs)
                   THEN Append(r1, Risk(RiskAnchorsOverridePinning,
                                        Sprintf1(section, " override certificate pinning.")))
                   ELSE r1
         IN  IF IsEmbeddedSrc(certs)
             THEN LET cert == ResolveCertificate(a, certs.Src)
                  IN  IF cert.st = "panic" THEN [st |-> "panic", ret |-> r2]
                      ELSE IF cert.st = "cert" /\ IsProxySubject(cert.subject)
                      THEN BaseAnchorsLoop(a, baseSection, certificates, k + 1,
                               Append(r2, Risk(ProxyRiskType,
                                   SprintfQuoted(section, " contain proxy tool CA with subject \"",
                                                 cert.subject))))
                      ELSE BaseAnchorsLoop(a, baseSection, certificates, k + 1, r2)
             ELSE BaseAnchorsLoop(a, baseSection, certificates, k + 1, r2)

\* BaseCleartext with an explicit false read like an absent attribute
BaseCleartextFalseAsUnset(baseConfig, defaults, section) ==
    IF IsNil(baseConfig) \/ Deref(baseConfig).CleartextTrafficPermitted # "True"
    THEN IF defaults.AllowCleartext
         THEN <<Risk(RiskCleartext, Sprintf1(section, " defaults permit cleartext traffic."))>>
         ELSE <<>>
    ELSE <<Risk(RiskCleartext, Sprintf1(section, " permits cleartext traffic."))>>

\* lines 169-189: the cleartext rule of the base config
BaseCleartext(baseConfig, defaults, section) ==
    IF IsNil(baseConfig)
    THEN IF defaults.AllowCleartext
         THEN <<Risk(RiskCleartext, Sprintf1(section, " defaults permit cleartext traffic."))>>
         ELSE <<>>
    ELSE IF Deref(baseConfig).CleartextTrafficPermitted = "Unset"
    THEN IF defaults.AllowCleartext
         THEN <<Risk(RiskCleartext, Sprintf1(section, " defaults permit cleartext traffic."))>>
         ELSE <<>>
    ELSE IF Deref(baseConfig).CleartextTrafficPermitted = "True"
    THEN <<Risk(RiskCleartext, Sprintf1(section, " permits cleartext traffic."))>>
    ELSE <<>>

\* BaseAnchors reached only when cleartextTrafficPermitted is set
BaseAnchorsWhenCleartextSet(a, baseConfig, section, ret) ==
    IF IsNil(baseConfig) \/ Deref(baseConfig).CleartextTrafficPermitted = "Unset"
       \/ IsNil(Deref(baseConfig).TrustAnchors)
    THEN [st |-> "ok", ret |-> ret]
    ELSE BaseAnchorsLoop(a, section, Deref(Deref(baseConfig).TrustAnchors).Certificates, 1, ret)

\* lines 191-240: the trust anchors of the base config, if any
BaseAnchors(a, baseConfig, section, ret) ==
    IF IsNil(baseConfig) \/ IsNil(Deref(baseConfig).TrustAnchors)
    THEN [st |-> "ok", ret |-> ret]
    ELSE BaseAnchorsLoop(a, section, Deref(Deref(baseConfig).TrustAnchors).Certificates, 1, ret)

BaseConfigBlock(a, nscSection) ==
    LET section == Sprintf1(nscSection, " base config")
        baseConfig == Deref(a.nsc).BaseConfig
    IN  BaseAnchors(a, baseConfig, section, BaseCleartext(baseConfig, a.defaults, section))

----------------------------------------------------------------------------
(* check(): NSC present, domain config (lines 243-324) *)

\* the flattening that takes a node's following siblings before its children
RECURSIVE flattenSiblingsFirst(_)
flattenSiblingsFirst(domainConfigs) ==
    IF domainConfigs = <<>> THEN <<>>
    ELSE <<Head(domainConfigs)>>
         \o flattenSiblingsFirst(Tail(domainConfigs))
         \o flattenSiblingsFirst(Head(domainConfigs).Children)

\* lines 246-255: a node, then the flattening of its children, for each node
\* in order (a decoded forest holds no nil node)
RECURSIVE flattenDomainConfig(_)
flattenDomainConfig(domainConfigs) ==
    IF domainConfigs = <<>> THEN <<>>
    ELSE <<Head(domainConfigs)>>
         \o flattenDomainConfig(Head(domainConfigs).Children)
         \o flattenDomainConfig(Tail(domainConfigs))

\* PinSetExpires with the ten days taken exclusive
PinSetExpiresStrict(pinSet, now) ==
    LET expiration == ParseDate(pinSet.Expiration)
    IN  expiration.err \/ UntilHours(expiration, now) < ExpirationThresholdHours

\* line 262-263: the pin set's date does not parse, or lies at most ten days ahead
PinSetExpires(pinSet, now) ==
    LET expiration == ParseDate(pinSet.Expiration)
    IN  expiration.err \/ UntilHours(expiration, now) <= ExpirationThresholdHours

\* HasPins satisfied by any pin set, even an empty one
HasPinsAnyPinSet(pinSet) == Len(pinSet.Pins) >= 0

\* line 271
HasPins(pinSet) == Len(pinSet.Pins) > 0

\* line 276
IsMalformedDomain(domain) == HasPrefix(domain.Data, S_http)

\* lines 261-274: the risks of the node's pin set
PinSetRisks(domainConfig, section, now) ==
    IF ~IsNil(domainConfig.PinSet) /\ PinSetExpires(Deref(domainConfig.PinSet), now)
    THEN <<Risk(RiskPinningExpiration, Sprintf1(section, " pin set (will) hit its expiration."))>>
    ELSE <<>>

NodePinned(domainConfig) ==
    ~IsNil(domainConfig.PinSet) /\ HasPins(Deref(domainConfig.PinSet))

\* lines 275-282
RECURSIVE DomainRisks(_, _)
DomainRisks(domains, section) ==
    IF domains = <<>> THEN <<>>
    ELSE (IF IsMalformedDomain(Head(domains))
          THEN <<Risk(RiskMalformedNSC,
                      SprintfQuoted(section, " domains contain malformed hostname \"",
                                    Head(domains).Data))>>
          ELSE <<>>)
         \o DomainRisks(Tail(domains), section)

\* lines 284-314: the loop over the node's certificates, from entry k on
RECURSIVE NodeAnchorsLoop(_, _, _, _, _)
NodeAnchorsLoop(a, section, certificates, k, ret) ==
    IF k > Len(certificates) THEN [st |-> "ok", ret |-> ret]
    ELSE LET certs == certificates[k]
         IN  IF IsEmbeddedSrc(certs)
             THEN LET cert == ResolveCertificate(a, certs.Src)
                  IN  IF cert.st = "panic" THEN [st |-> "panic", ret |-> ret]
                      ELSE IF cert.st = "cert" /\ IsProxySubject(cert.subject)
                      THEN NodeAnchorsLoop(a, section, certificates, k + 1,
                               Append(ret, Risk(ProxyRiskType,
                                   SprintfQuoted(section,
                                       " trust anchors contain proxy tool CA with subject \"",
                                       cert.subject))))
                      ELSE NodeAnchorsLoop(a, section, certificates, k + 1, ret)
             ELSE NodeAnchorsLoop(a, section, certificates, k + 1, ret)

\* lines 283-315
NodeAnchors(a, domainConfig, section, ret) ==
    IF IsNil(domainConfig.TrustAnchors) THEN [st |-> "ok", ret |-> ret]
    ELSE NodeAnchorsLoop(a, section, Deref(domainConfig.TrustAnchors).Certificates, 1, ret)

\* lines 259-316: the loop over the flattened nodes, from node k on (index
\* k - 1); now[k] is the clock as time.Until reads it for node k
RECURSIVE DomainConfigLoop(_, _, _, _, _, _, _)
DomainConfigLoop(a, domainSection, domainConfigs, now, k, pinned, ret) ==
    IF k > Len(domainConfigs) THEN [st |-> "ok", ret |-> ret, pinned |-> pinned]
    ELSE LET domainConfig == domainConfigs[k]
             section == SprintfIndex(domainSection, " sub config (index: ", k - 1, ")")
             r1 == ret \o PinSetRisks(domainConfig, section, now[k])
             r2 == r1 \o DomainRisks(domainConfig.Domains, section)
             r3 == NodeAnchors(a, domainConfig, section, r2)
         IN  IF r3.st = "panic" THEN [st |-> "panic", ret |-> r3.ret, pinned |-> pinned]
             ELSE DomainConfigLoop(a, domainSection, domainConfigs, now, k + 1,
                                   pinned \/ NodePinned(domainConfig), r3.ret)

\* lines 318-323
UnpinnedRisks(pinned, section) ==
    IF ~pinned
    THEN <<Risk(RiskUnpinned, Sprintf1(section, " does not contain pinned certificates."))>>
    ELSE <<>>

DomainConfigBlock(a, nscSection, now, ret) ==
    LET section == Sprintf1(nscSection, " domain config")
        domainConfigs == flattenDomainConfig(Deref(a.nsc).DomainConfig)
        loop == DomainConfigLoop(a, section, domainConfigs, now, 1, FALSE, ret)
    IN  IF loop.st = "panic" THEN [st |-> "panic", ret |-> loop.ret]
        ELSE [st |-> "ok", ret |-> loop.ret \o UnpinnedRisks(loop.pinned, section)]

----------------------------------------------------------------------------
(* check(): NSC absent (lines 325-347) *)

\* ManifestBlock with an explicit false read like an absent attribute
ManifestBlockFalseAsUnset(a) ==
    LET section == <<Text("Manifest")>>
        app == a.m.Application
    IN  (IF a.defaults.NSCPresence
         THEN <<Risk(RiskNSCMissing,
                  Sprintf1(section, " does not specify NSC where target Android version supports it."))>>
         ELSE <<>>)
        \o (IF app.UsesCleartextTraffic # "True"
            THEN IF a.defaults.AllowCleartext
                 THEN <<Risk(RiskCleartext, Sprintf1(section, " defaults permit cleartext traffic."))>>
                 ELSE <<>>
            ELSE <<Risk(RiskCleartext, Sprintf1(section, " permits cleartext traffic."))>>)

ManifestBlock(a) ==
    LET section == <<Text("Manifest")>>
        app == a.m.Application
    IN  (IF a.defaults.NSCPresence
         THEN <<Risk(RiskNSCMissing,
                  Sprintf1(section, " does not specify NSC where target Android version supports it."))>>
         ELSE <<>>)
        \o (IF app.UsesCleartextTraffic = "Unset"
            THEN IF a.defaults.AllowCleartext
                 THEN <<Risk(RiskCleartext, Sprintf1(section, " defaults permit cleartext traffic."))>>
                 ELSE <<>>
            ELSE IF app.UsesCleartextTraffic = "True"
            THEN <<Risk(RiskCleartext, Sprintf1(section, " permits cleartext traffic."))>>
            ELSE <<>>)

\* check(): [st |-> "ok", ret |-> the risks] when it returns, st = "panic"
\* when a nil dereference ends it
check(a, now) ==
    IF ~IsNil(a.nsc)
    THEN LET section == <<Text("NSC")>>
             base == BaseConfigBlock(a, section)
         IN  IF base.st = "panic" THEN base
             ELSE DomainConfigBlock(a, section, now, base.ret)
    ELSE [st |-> "ok", ret |-> ManifestBlock(a)]

----------------------------------------------------------------------------
(* The files given on the command line *)

\* certificates src values
Src_zz == <<"@","z","z">>
Src_7f == <<"@","7","f">>
Src_7E == <<"@","7","E">>
Src_7d == <<"@","7","d">>
Src_7c == <<"@","7","c">>
Src_7b == <<"@","7","b">>
Src_7a == <<"@","7","a">>
Src_79 == <<"@","7","9">>

\* certificate subjects
Subject_Proxy == <<"C","N","=","P","r","o","x","y">>
Subject_ca == <<"C","N","=","c","a">>

\* the resource table of an APK: resource id (two 16-bit halves) -> file name.  0x7c is the id
\* of no resource; 0x7d names a file the archive does not hold.
ResourceTable ==
    (<<0, 127>> :> "res/raw/proxy.cer") @@ (<<0, 126>> :> "res/raw/ca.cer")
    @@ (<<0, 125>> :> "res/raw/gone.cer") @@ (<<0, 123>> :> "res/raw/junk.cer")
    @@ (<<0, 122>> :> "res/raw/locked.cer") @@ (<<0, 121>> :> "res/raw/torn.cer")

ZipEntry(open, read, x509, subject) ==
    [open |-> open, read |-> read, x509 |-> x509, subject |-> subject]

\* the archive's entries: whether Open and io.ReadAll succeed, whether the
\* bytes are an X.509 certificate, and its subject
ZipEntries ==
    ("res/raw/proxy.cer" :> ZipEntry("ok", "ok", TRUE, Subject_Proxy))
    @@ ("res/raw/ca.cer" :> ZipEntry("ok", "ok", TRUE, Subject_ca))
    @@ ("res/raw/junk.cer" :> ZipEntry("ok", "ok", FALSE, <<>>))
    @@ ("res/raw/locked.cer" :> ZipEntry("err", "ok", TRUE, Subject_Proxy))
    @@ ("res/raw/torn.cer" :> ZipEntry("ok", "err", TRUE, Subject_Proxy))

Certificates(src, overridePins) == [Src |-> src, OverridePins |-> overridePins]

TrustAnchors(certificates) == Ptr([Certificates |-> certificates])

EmbeddedSrcs == {Src_zz, Src_7f, Src_7E, Src_7d, Src_7c, Src_7b, Src_7a, Src_79}

\* the certificates entries of base configs
BaseCertificates ==
    {Certificates(S_system, "Unset"), Certificates(S_user, "Unset"), Certificates(S_user, "True"),
     Certificates(S_user, "False"), Certificates(Src_7f, "True")}
    \cup {Certificates(s, "Unset") : s \in EmbeddedSrcs}

BaseConfig(cleartextTrafficPermitted, trustAnchors) ==
    Ptr([CleartextTrafficPermitted |-> cleartextTrafficPermitted, TrustAnchors |-> trustAnchors])

\* pin-set expirations: the day of the run is 2026-11-06
Date_10days == <<"2","0","2","6","-","1","1","-","1","6">>
Date_11days == <<"2","0","2","6","-","1","1","-","1","7">>
Date_400days == <<"2","0","2","7","-","1","2","-","1","1">>
Date_past == <<"2","0","2","0","-","0","1","-","0","1">>
Date_noSuchDay == <<"2","0","2","6","-","0","2","-","3","0">>
Date_empty == <<>>

Today == DaysFromCivil(2026, 11, 6)

\* the clock readings of a run: midnight and 23:00 of that day
NowSet == {24 * Today, 24 * Today + 23}

Pin == [Digest |-> "SHA-256"]

PinSet(expiration, pins) == Ptr([Expiration |-> expiration, Pins |-> pins])

Domain(data) == [Data |-> data]

Host_example == <<"e","x","a","m","p","l","e",".","c","o","m">>
Host_url == S_http \o <<":","/","/">> \o Host_example

DomainConfig(pinSet, domains, trustAnchors, children) ==
    [PinSet |-> pinSet, Domains |-> domains, TrustAnchors |-> trustAnchors, Children |-> children]

\* what a domain-config node holds beside its children
NodeContents ==
    { DomainConfig(Nil, <<>>, Nil, <<>>),
      DomainConfig(PinSet(Date_10days, <<Pin>>), <<Domain(Host_url)>>, Nil, <<>>),
      DomainConfig(PinSet(Date_11days, <<Pin>>), <<>>,
                   TrustAnchors(<<Certificates(S_system, "Unset"), Certificates(Src_7E, "Unset")>>), <<>>),
      DomainConfig(PinSet(Date_empty, <<>>), <<>>,
                   TrustAnchors(<<Certificates(S_user, "Unset")>>), <<>>),
      DomainConfig(Nil, <<Domain(Host_example), Domain(Host_url)>>,
                   TrustAnchors(<<Certificates(Src_zz, "Unset"), Certificates(Src_7f, "True")>>), <<>>),
      DomainConfig(Nil, <<>>, TrustAnchors(<<Certificates(Src_7d, "Unset")>>), <<>>) }

\* the pin sets of single-node forests
PinSets ==
    {PinSet(e, p) : e \in {Date_10days, Date_11days, Date_400days, Date_past, Date_noSuchDay,
                           Date_empty},
                    p \in {<<>>, <<Pin>>}}

\* forests of exactly n nodes, nested at most d deep
RECURSIVE Forests(_, _)
Forests(n, d) ==
    IF n = 0 THEN {<<>>}
    ELSE IF d = 0 THEN {}
    ELSE UNION { { <<[c EXCEPT !.Children = ch]>> \o rest :
                     c \in NodeContents, ch \in Forests(k - 1, d - 1), rest \in Forests(n - k, d) }
                 : k \in 1..n }

NetworkSecurityConfig(baseConfig, domainConfig) ==
    [BaseConfig |-> baseConfig, DomainConfig |-> domainConfig]

Manifest(targetSdkVersion, networkSecurityConfig, usesCleartextTraffic) ==
    [UsesSDK |-> [TargetSDKVersion |-> targetSdkVersion],
     Application |-> [Name |-> "app", NetworkSecurityConfig |-> networkSecurityConfig,
                      UsesCleartextTraffic |-> usesCleartextTraffic]]

\* An APK: how ParseAPK ends on it, its manifest, what opening and decoding
\* its NSC entry gives, and the decoded NSC
File(parse, m, nscEntry, nscTree) ==
    [parse |-> parse, m |-> m, nscEntry |-> nscEntry, nscTree |-> nscTree,
     zip |-> ZipEntries, resources |-> ResourceTable]

ParseOutcomes == {"ok", "open zip error", "parse manifest error", "parse resources error",
                  "unmarshal manifest error", "cannot find resources file",
                  "failed to open resources.arsc"}

\* lines 38-41: xml.Unmarshal failed on the decoded manifest; the error is only
\* logged and ParseAPK goes on with the Manifest struct as Unmarshal left it
UnmarshalFailed == "unmarshal manifest error"

\* lines 22-23, 30-36, 44-56: the outcomes on which ParseAPK returns an error
ParseAPKErrors == ParseOutcomes \ {"ok", UnmarshalFailed}

NSCEntryOutcomes == {"ok", "cannot find nsc", "cannot read nsc", "cannot parse nsc",
                     "cannot unmarshal nsc"}

SDKVersions == (1 - SDKMargin)..(SDKHighest + SDKMargin)

NSCPath == "res/xml/network_security_config.xml"

EmptyNSC == NetworkSecurityConfig(Nil, <<>>)

\* a pinned node whose trust anchors name the user store
UserAnchoredNode ==
    DomainConfig(PinSet(Date_400days, <<Pin>>), <<>>,
                 TrustAnchors(<<Certificates(S_user, "True")>>), <<>>)

\* main starts on the one file named on the command line
Start(file) ==
    /\ args = <<file>>
    /\ idx = 1
    /\ pc = "ParseAPK"
    /\ parsed = Nil
    /\ nsc = Nil
    /\ clock = <<>>
    /\ analysis = Nil
    /\ riskMap = <<>>
    /\ printed = <<>>

\* files without a usable NSC, and files ParseAPK rejects
ManifestFiles ==
    \/ \E v \in SDKVersions, u \in Tri :
          Start(File("ok", Manifest(v, "", u), "cannot find nsc", EmptyNSC))
    \/ \E v \in SDKVersions, u \in Tri, e \in NSCEntryOutcomes \ {"ok"} :
          Start(File("ok", Manifest(v, NSCPath, u), e, EmptyNSC))
    \/ \E p \in ParseAPKErrors :
          Start(File(p, Manifest(30, "", "Unset"), "cannot find nsc", EmptyNSC))
    \/ Start(File(UnmarshalFailed, Manifest(0, "", "Unset"), "cannot find nsc", EmptyNSC))

\* files whose NSC varies in its base config: none, or one with or without
\* trust anchors of at most MaxCerts certificates entries
BaseFiles ==
    \/ \E v \in {27, 28}, f \in {<<>>, <<UserAnchoredNode>>} :
          \/ Start(File("ok", Manifest(v, NSCPath, "Unset"), "ok", NetworkSecurityConfig(Nil, f)))
          \/ \E c \in Tri :
                Start(File("ok", Manifest(v, NSCPath, "Unset"), "ok",
                           NetworkSecurityConfig(BaseConfig(c, Nil), f)))
    \/ \E c \in Tri, n \in 0..MaxCerts : \E q \in [1..n -> BaseCertificates] :
          \/ Start(File("ok", Manifest(27, NSCPath, "Unset"), "ok",
                        NetworkSecurityConfig(BaseConfig(c, TrustAnchors(q)), <<>>)))
          \/ Start(File("ok", Manifest(28, NSCPath, "Unset"), "ok",
                        NetworkSecurityConfig(BaseConfig(c, TrustAnchors(q)), <<UserAnchoredNode>>)))

\* files whose NSC varies in its domain configs
DomainFiles ==
    \/ \E n \in 0..MaxNodes : \E f \in Forests(n, MaxDepth) :
          Start(File("ok", Manifest(28, NSCPath, "True"), "ok", NetworkSecurityConfig(Nil, f)))
    \/ \E p \in PinSets :
          Start(File("ok", Manifest(27, NSCPath, "False"), "ok",
                     NetworkSecurityConfig(Nil, <<DomainConfig(p, <<>>, Nil, <<>>)>>)))

----------------------------------------------------------------------------
(* main *)

\* the clock readings time.Until may make during one check(): one per
\* flattened node, never going back, moving only where a pin set is read
Clocks(domainConfigs) ==
    {now \in [1..Len(domainConfigs) -> NowSet] :
        \A k \in 1..Len(domainConfigs) :
            /\ k > 1 => now[k] >= now[k - 1]
            /\ IsNil(domainConfigs[k].PinSet) =>
                   now[k] = (IF k = 1 THEN 24 * Today ELSE now[k - 1])}

\* riskMap[risk.Type][risk.Reason] = append(..., analysis), for one risk
AddRisk(map, risk, id) ==
    LET reasonMap == IF risk.Type \in DOMAIN map THEN map[risk.Type] ELSE <<>>
        apps == IF risk.Reason \in DOMAIN reasonMap THEN reasonMap[risk.Reason] ELSE <<>>
        newReasonMap == [r \in DOMAIN reasonMap \cup {risk.Reason} |->
                            IF r = risk.Reason THEN Append(apps, id) ELSE reasonMap[r]]
    IN  [t \in DOMAIN map \cup {risk.Type} |-> IF t = risk.Type THEN newReasonMap ELSE map[t]]

RECURSIVE AddRisks(_, _, _)
AddRisks(map, risks, id) ==
    IF risks = <<>> THEN map ELSE AddRisks(AddRisk(map, Head(risks), id), Tail(risks), id)

Init == ManifestFiles \/ BaseFiles \/ DomainFiles

\* lines 395-400 with ParseAPK: a file on which ParseAPK returns an error is
\* logged and skipped
ParseAPK ==
    /\ pc = "ParseAPK"
    /\ idx <= Len(args)
    /\ IF args[idx].parse \in ParseAPKErrors
       THEN /\ idx' = idx + 1
            /\ UNCHANGED <<pc, parsed>>
       ELSE /\ parsed' = Ptr([zip |-> args[idx].zip, m |-> args[idx].m,
                              resources |-> args[idx].resources])
            /\ pc' = "LoadNSC"
            /\ UNCHANGED idx
    /\ UNCHANGED <<args, nsc, clock, analysis, riskMap, printed>>

\* lines 402-422: the NSC stays nil unless it is declared, found, opened,
\* parsed and unmarshalled
LoadedNSC(file) ==
    IF file.m.Application.NetworkSecurityConfig # ""
    THEN IF file.nscEntry # "cannot find nsc"
         THEN IF file.nscEntry = "cannot read nsc" THEN Nil
              ELSE IF file.nscEntry = "cannot parse nsc" THEN Nil
              ELSE IF file.nscEntry = "cannot unmarshal nsc" THEN Nil
              ELSE Ptr(file.nscTree)
         ELSE Nil
    ELSE Nil

LoadNSC ==
    /\ pc = "LoadNSC"
    /\ nsc' = LoadedNSC(args[idx])
    /\ pc' = "Analyze"
    /\ UNCHANGED <<args, idx, parsed, clock, analysis, riskMap, printed>>

\* lines 365-387: the Analysis that check() runs on
NewAnalysis(file, m, nscPtr, zip, resources) ==
    LET targetVersion == SDKVersionToAndroidMajor(m.UsesSDK.TargetSDKVersion)
    IN  [File |-> file, Name |-> m.Application.Name, TargetVersion |-> targetVersion,
         m |-> m, nsc |-> nscPtr, zip |-> zip, resources |-> resources,
         defaults |-> AndroidDefaults(targetVersion)]

\* line 424 with Analyze and check: a nil dereference in check ends the process
Analyze ==
    /\ pc = "Analyze"
    /\ LET a == NewAnalysis(idx, Deref(parsed).m, nsc, Deref(parsed).zip, Deref(parsed).resources)
           domainConfigs == IF IsNil(nsc) THEN <<>>
                            ELSE flattenDomainConfig(Deref(nsc).DomainConfig)
       IN  \E now \in Clocks(domainConfigs) :
               LET res == check(a, now)
               IN  /\ clock' = now
                   /\ IF res.st = "panic"
                      THEN /\ pc' = "panic"
                           /\ UNCHANGED analysis
                      ELSE /\ pc' = "Report"
                           /\ analysis' = Ptr([File |-> a.File, Name |-> a.Name,
                                               TargetVersion |-> a.TargetVersion,
                                               defaults |-> a.defaults,
                                               Risks |-> res.ret])
    /\ UNCHANGED <<args, idx, parsed, nsc, riskMap, printed>>

\* lines 430-439: the risks enter the map and the analysis is printed
Report ==
    /\ pc = "Report"
    /\ riskMap' = AddRisks(riskMap, Deref(analysis).Risks, Deref(analysis).File)
    /\ printed' = Append(printed, Deref(analysis))
    /\ idx' = idx + 1
    /\ pc' = "ParseAPK"
    /\ UNCHANGED <<args, parsed, nsc, clock, analysis>>

\* lines 442-460: the statistics, after the last file
Statistics ==
    /\ pc = "ParseAPK"
    /\ idx > Len(args)
    /\ pc' = "exit"
    /\ UNCHANGED <<args, idx, parsed, nsc, clock, analysis, riskMap, printed>>

Next == ParseAPK \/ LoadNSC \/ Analyze \/ Report \/ Statistics

Spec == Init /\ [][Next]_vars

----------------------------------------------------------------------------
(* main over several files *)

\* the longest command line
MaxFiles == 3

\* the files of a command line: three that do not decode, and five that do,
\* with manifest risks, a base-config risk, a pin set near its expiration and
\* a certificate whose resource names no zip entry
BatchFiles ==
    { File("open zip error", Manifest(30, "", "Unset"), "cannot find nsc", EmptyNSC),
      File("parse manifest error", Manifest(30, "", "Unset"), "cannot find nsc", EmptyNSC),
      File(UnmarshalFailed, Manifest(0, "", "Unset"), "cannot find nsc", EmptyNSC),
      File("ok", Manifest(23, "", "True"), "cannot find nsc", EmptyNSC),
      File("ok", Manifest(30, "", "Unset"), "cannot find nsc", EmptyNSC),
      File("ok", Manifest(30, NSCPath, "Unset"), "ok",
           NetworkSecurityConfig(BaseConfig("True", TrustAnchors(<<Certificates(S_user, "Unset")>>)),
                                 <<>>)),
      File("ok", Manifest(30, NSCPath, "Unset"), "ok",
           NetworkSecurityConfig(Nil, <<DomainConfig(PinSet(Date_10days, <<Pin>>),
                                                     <<Domain(Host_url)>>, Nil, <<>>)>>)),
      File("ok", Manifest(30, NSCPath, "Unset"), "ok",
           NetworkSecurityConfig(Nil, <<DomainConfig(Nil, <<>>,
                                        TrustAnchors(<<Certificates(Src_7d, "Unset")>>), <<>>)>>)) }

\* line 394: main ranges over flag.Args()
StartAll(files) ==
    /\ args = files
    /\ idx = 1
    /\ pc = "ParseAPK"
    /\ parsed = Nil
    /\ nsc = Nil
    /\ clock = <<>>
    /\ analysis = Nil
    /\ riskMap = <<>>
    /\ printed = <<>>

InitBatch == \E n \in 1..MaxFiles : \E files \in [1..n -> BatchFiles] : StartAll(files)

SpecBatch == InitBatch /\ [][Next]_vars

----------------------------------------------------------------------------
(* Reading a finished analysis *)

\* check() has returned for the current file and its risks are in analysis
Returned == pc = "Report"

Risks == Deref(analysis).Risks

TypesOf(risks) == [k \in 1..Len(risks) |-> risks[k].Type]

CountType(risks, type) == Cardinality({k \in 1..Len(risks) : risks[k].Type = type})

CurrentFile == args[idx]

\* the reason names trust-anchors entry i of the base config
InBaseAnchor(reason, i) ==
    /\ Len(reason) >= 5
    /\ SubSeq(reason, 1, 5) = <<Text("NSC"), Text(" base config"),
                                Text(" trust anchors (index: "), Itoa(i), Text(")")>>

\* the reason names the flattened domain-config node of index i
InSubConfig(reason, i) ==
    /\ Len(reason) >= 5
    /\ SubSeq(reason, 1, 5) = <<Text("NSC"), Text(" domain config"),
                                Text(" sub config (index: "), Itoa(i), Text(")")>>

\* the reason is the one written for a proxy tool certificate
IsProxyReason(reason) ==
    \E k \in 1..Len(reason) :
        reason[k] \in {Text(" contain proxy tool CA with subject \""),
                       Text(" trust anchors contain proxy tool CA with subject \"")}

\* the nodes of a forest in document order, each with its nesting depth
RECURSIVE NodesWithDepth(_, _)
NodesWithDepth(forest, depth) ==
    IF forest = <<>> THEN <<>>
    ELSE <<[node |-> Head(forest), depth |-> depth]>>
         \o NodesWithDepth(Head(forest).Children, depth + 1)
         \o NodesWithDepth(Tail(forest), depth)

\* some node of the forest, at any depth, has a pin set with a pin
RECURSIVE AnyPinned(_)
AnyPinned(forest) ==
    \E k \in 1..Len(forest) :
        \/ ~IsNil(forest[k].PinSet) /\ Len(Deref(forest[k].PinSet).Pins) >= 1
        \/ AnyPinned(forest[k].Children)

----------------------------------------------------------------------------
(* C1: NSC absent *)

\* the risk types the manifest rules give for a major version and usesCleartextTraffic
ManifestRiskTypes(major, usesCleartextTraffic) ==
    (IF major >= 7 THEN <<RiskNSCMissing>> ELSE <<>>)
    \o (IF usesCleartextTraffic = "True" \/ (usesCleartextTraffic = "Unset" /\ major < 9)
        THEN <<RiskCleartext>> ELSE <<>>)

\* the file declares no NSC, or its NSC entry is missing, unreadable or undecodable
NSCUnusable(file) ==
    file.m.Application.NetworkSecurityConfig = "" \/ file.nscEntry # "ok"

\* C1: a file whose NSC is not declared, not found, or fails to open or parse is
\* analysed with a nil NSC and never aborts; with a nil NSC the returned risks
\* are exactly RiskNSCMissing when the major version is >= 7, then RiskCleartext
\* when usesCleartextTraffic is True or (Unset and major < 9), and nothing else;
\* so SDK 30 with Unset gives [RiskNSCMissing] and SDK 21 with Unset [RiskCleartext].
C1_NSCAbsentRisks ==
    /\ (pc \in {"Analyze", "Report", "panic"} /\ NSCUnusable(CurrentFile)) =>
           IsNil(nsc) /\ pc # "panic"
    /\ (Returned /\ IsNil(nsc)) =>
           LET app == CurrentFile.m.Application
               sdk == CurrentFile.m.UsesSDK.TargetSDKVersion
           IN  /\ TypesOf(Risks) = ManifestRiskTypes(Deref(analysis).TargetVersion,
                                                     app.UsesCleartextTraffic)
               /\ (sdk = 30 /\ app.UsesCleartextTraffic = "Unset") =>
                      TypesOf(Risks) = <<RiskNSCMissing>>
               /\ (sdk = 21 /\ app.UsesCleartextTraffic = "Unset") =>
                      TypesOf(Risks) = <<RiskCleartext>>

\* an APK of target SDK 30 that declares an NSC which does not parse was
\* analysed as if it had none
C1_Witness ==
    /\ Returned
    /\ CurrentFile.m.Application.NetworkSecurityConfig # ""
    /\ CurrentFile.nscEntry = "cannot parse nsc"
    /\ CurrentFile.m.UsesSDK.TargetSDKVersion = 30
    /\ CurrentFile.m.Application.UsesCleartextTraffic = "Unset"
    /\ TypesOf(Risks) = <<RiskNSCMissing>>

----------------------------------------------------------------------------
(* C2, C3, C4: trust anchors of domain configs, resolution failures, flattening bounds *)

FlatNodes == NodesWithDepth(Deref(nsc).DomainConfig, 1)

UserSources(trustAnchors) ==
    IF IsNil(trustAnchors) THEN {}
    ELSE {k \in 1..Len(Deref(trustAnchors).Certificates) :
             Deref(trustAnchors).Certificates[k].Src = S_user}

\* the RiskUserAnchors risks of flattened node i that are not proxy-tool findings
UserAnchorRisksOfNode(risks, i) ==
    {k \in 1..Len(risks) : /\ risks[k].Type = RiskUserAnchors
                           /\ InSubConfig(risks[k].Reason, i)
                           /\ ~IsProxyReason(risks[k].Reason)}

\* C2: every flattened domain-config node contributes one RiskUserAnchors for
\* each of its certificates entries whose src is "user", as the base config does.
C2_DomainUserAnchors ==
    (Returned /\ ~IsNil(nsc)) =>
        \A i \in 1..Len(FlatNodes) :
            Cardinality(UserAnchorRisksOfNode(Risks, i - 1))
                = Cardinality(UserSources(FlatNodes[i].node.TrustAnchors))

\* C3: no failure to resolve an embedded certificate aborts check(): every
\* analysis that starts returns.
C3_ResolutionNeverAborts == pc # "panic"

\* limits a bounded flattener would enforce, set below the largest forest explored
FlattenNodeLimit == MaxNodes - 1
FlattenDepthLimit == MaxDepth - 1

\* the nesting depth of the node the flattening lists at position k: the
\* flattening keeps the document order
FlattenedDepth(forest, k) == NodesWithDepth(forest, 1)[k].depth

\* C4: the flattened sequence never holds more nodes than the node limit nor a
\* node nested deeper than the depth limit, however large the forest.
C4_FlattenBounded ==
    (pc \in {"Report", "panic"} /\ ~IsNil(nsc)) =>
        LET forest == Deref(nsc).DomainConfig
            flat == flattenDomainConfig(forest)
        IN  /\ Len(flat) <= FlattenNodeLimit
            /\ \A k \in 1..Len(flat) : FlattenedDepth(forest, k) <= FlattenDepthLimit

----------------------------------------------------------------------------
(* C5, C6: pinning *)

\* C5: with an NSC, RiskUnpinned is returned exactly once when no domain-config
\* node at any depth (none in an empty forest) has a pin set with a pin, and
\* not at all when one has; it is the section's risk and the last of the sequence.
C5_UnpinnedOnce ==
    (Returned /\ ~IsNil(nsc)) =>
        LET n == CountType(Risks, RiskUnpinned)
        IN  /\ n = (IF AnyPinned(Deref(nsc).DomainConfig) THEN 0 ELSE 1)
            /\ n = 1 =>
                  Risks[Len(Risks)] =
                      Risk(RiskUnpinned, <<Text("NSC"), Text(" domain config"),
                                           Text(" does not contain pinned certificates.")>>)

\* the only pin of the forest sits in a nested node, and no RiskUnpinned was returned
C5_Witness ==
    /\ Returned
    /\ ~IsNil(nsc)
    /\ \E i \in 1..Len(FlatNodes) : FlatNodes[i].depth >= 2 /\ NodePinned(FlatNodes[i].node)
    /\ \A i \in 1..Len(FlatNodes) : FlatNodes[i].depth = 1 => ~NodePinned(FlatNodes[i].node)
    /\ CountType(Risks, RiskUnpinned) = 0

\* days from the day of the run to each expiration that is a calendar date
DaysAhead ==
    (Date_10days :> 10) @@ (Date_11days :> 11) @@ (Date_400days :> 400) @@ (Date_past :> (0 - 2501))

\* a pin set read at time now is due: its expiration is no calendar date, or
\* lies at most 10 days (240 hours) after now
Due(pinSet, now) ==
    \/ pinSet.Expiration \notin DOMAIN DaysAhead
    \/ 24 * (Today + DaysAhead[pinSet.Expiration]) - now <= 240

ExpirationRisksOfNode(risks, i) ==
    {k \in 1..Len(risks) : risks[k].Type = RiskPinningExpiration /\ InSubConfig(risks[k].Reason, i)}

\* C6: a flattened node contributes exactly one RiskPinningExpiration when it
\* has a pin set that is due at the time it is read, and none otherwise (no pin
\* set, or an expiration more than 10 days ahead); no other such risk is returned.
C6_PinningExpiration ==
    (Returned /\ ~IsNil(nsc)) =>
        /\ \A i \in 1..Len(FlatNodes) :
              Cardinality(ExpirationRisksOfNode(Risks, i - 1))
                  = (IF /\ ~IsNil(FlatNodes[i].node.PinSet)
                        /\ Due(Deref(FlatNodes[i].node.PinSet), clock[i])
                     THEN 1 ELSE 0)
        /\ \A k \in 1..Len(Risks) :
              Risks[k].Type = RiskPinningExpiration =>
                  \E i \in 1..Len(FlatNodes) : InSubConfig(Risks[k].Reason, i - 1)

\* a pin set expiring exactly 240 hours after it was read was reported
C6_Witness ==
    /\ Returned
    /\ ~IsNil(nsc)
    /\ \E i \in 1..Len(FlatNodes) :
          /\ ~IsNil(FlatNodes[i].node.PinSet)
          /\ Deref(FlatNodes[i].node.PinSet).Expiration = Date_10days
          /\ clock[i] = 24 * Today
          /\ Cardinality(ExpirationRisksOfNode(Risks, i - 1)) = 1

----------------------------------------------------------------------------
(* C7, C8, C9: base config *)

BaseCertificatesOf(nscPtr) ==
    IF IsNil(nscPtr) \/ IsNil(Deref(nscPtr).BaseConfig)
       \/ IsNil(Deref(Deref(nscPtr).BaseConfig).TrustAnchors)
    THEN <<>>
    ELSE Deref(Deref(Deref(nscPtr).BaseConfig).TrustAnchors).Certificates

\* the types of the risks of base trust-anchors entry i, proxy findings apart
AnchorRiskTypes(risks, i) ==
    LET OfEntry(r) == InBaseAnchor(r.Reason, i) /\ ~IsProxyReason(r.Reason)
    IN  TypesOf(SelectSeq(risks, OfEntry))

\* the index of the base trust-anchors entry a risk names, -1 if it names none
AnchorIndex(risk, n) ==
    IF \E i \in 0..(n - 1) : InBaseAnchor(risk.Reason, i)
    THEN CHOOSE i \in 0..(n - 1) : InBaseAnchor(risk.Reason, i)
    ELSE -1

\* C7: whatever cleartextTrafficPermitted is, every certificates entry of the
\* base trust anchors is evaluated, in order: src "user" gives RiskUserAnchors,
\* then overridePins True (and only True) gives RiskAnchorsOverridePinning.
C7_BaseAnchors ==
    (Returned /\ ~IsNil(nsc)) =>
        LET certificates == BaseCertificatesOf(nsc)
            n == Len(certificates)
        IN  /\ \A i \in 1..n :
                  AnchorRiskTypes(Risks, i - 1)
                      = (IF certificates[i].Src = S_user THEN <<RiskUserAnchors>> ELSE <<>>)
                        \o (IF certificates[i].OverridePins = "True"
                            THEN <<RiskAnchorsOverridePinning>> ELSE <<>>)
            /\ CountType(Risks, RiskAnchorsOverridePinning)
                  = Cardinality({i \in 1..n : certificates[i].OverridePins = "True"})
            /\ \A k1, k2 \in 1..Len(Risks) :
                  (k1 < k2 /\ AnchorIndex(Risks[k1], n) >= 0 /\ AnchorIndex(Risks[k2], n) >= 0)
                      => AnchorIndex(Risks[k1], n) <= AnchorIndex(Risks[k2], n)

\* a base config that leaves cleartextTrafficPermitted unset and trusts the
\* user store without overridePins gave RiskUserAnchors and no override risk
C7_Witness ==
    /\ Returned
    /\ ~IsNil(nsc)
    /\ ~IsNil(Deref(nsc).BaseConfig)
    /\ Deref(Deref(nsc).BaseConfig).CleartextTrafficPermitted = "Unset"
    /\ \E i \in 1..Len(BaseCertificatesOf(nsc)) :
          /\ BaseCertificatesOf(nsc)[i] = Certificates(S_user, "Unset")
          /\ AnchorRiskTypes(Risks, i - 1) = <<RiskUserAnchors>>
    /\ CountType(Risks, RiskAnchorsOverridePinning) = 0

\* C8: a risk returned for a resolved certificate whose subject contains
\* "proxy" has type RiskProxyAnchors and a reason holding the subject.
C8_ProxyRiskType ==
    Returned =>
        \A k \in 1..Len(Risks) :
            IsProxyReason(Risks[k].Reason) =>
                /\ Risks[k].Type = RiskProxyAnchors
                /\ \E j \in 1..Len(Risks[k].Reason) : Risks[k].Reason[j] = Subject_Proxy

ExplicitCleartextReason ==
    <<Text("NSC"), Text(" base config"), Text(" permits cleartext traffic.")>>

DefaultCleartextReason ==
    <<Text("NSC"), Text(" base config"), Text(" defaults permit cleartext traffic.")>>

\* C9: with an NSC, RiskCleartext is returned once, with the explicit reason,
\* when the base config sets cleartextTrafficPermitted to True; once, with the
\* different default reason, when the attribute is unset or the base config is
\* absent and the major version is below 9; and never when it is False.
C9_BaseCleartext ==
    (Returned /\ ~IsNil(nsc)) =>
        LET baseConfig == Deref(nsc).BaseConfig
            permitted == IF IsNil(baseConfig) THEN "Unset"
                         ELSE Deref(baseConfig).CleartextTrafficPermitted
            IsCleartext(r) == r.Type = RiskCleartext
        IN  /\ ExplicitCleartextReason # DefaultCleartextReason
            /\ SelectSeq(Risks, IsCleartext)
                  = (IF permitted = "True" THEN <<Risk(RiskCleartext, ExplicitCleartextReason)>>
                     ELSE IF permitted = "Unset" /\ Deref(analysis).TargetVersion < 9
                     THEN <<Risk(RiskCleartext, DefaultCleartextReason)>>
                     ELSE <<>>)

\* a base config permitting cleartext on Android 9 gave the explicit reason
C9_Witness ==
    /\ Returned
    /\ ~IsNil(nsc)
    /\ ~IsNil(Deref(nsc).BaseConfig)
    /\ Deref(Deref(nsc).BaseConfig).CleartextTrafficPermitted = "True"
    /\ Deref(analysis).TargetVersion = 9
    /\ Risks[1] = Risk(RiskCleartext, ExplicitCleartextReason)

----------------------------------------------------------------------------
(* C10: SDK integers below 1 *)

\* C10: a target SDK below 1 is analysed as major version 1 (Analyze signals no
\* error), so the major version of an analysed SDK integer never exceeds that
\* of the next integer.
C10_BelowOneClamped ==
    Returned =>
        LET sdk == CurrentFile.m.UsesSDK.TargetSDKVersion
        IN  /\ sdk < 1 => Deref(analysis).TargetVersion = 1
            /\ Deref(analysis).TargetVersion <= SDKVersionToAndroidMajor(sdk + 1)

----------------------------------------------------------------------------
(* C11: one file of a command line does not disturb the others *)

\* the archive and the manifest of the file decode
Decodes(file) == file.parse = "ok"

\* the positions on the command line of the files that decode, in input order
DecodedArgs ==
    LET Test(i) == Decodes(args[i])
    IN  SelectSeq([i \in 1..Len(args) |-> i], Test)

\* the risk lists main gives the file when it is the only one on the command line
RisksAlone(file) ==
    LET nscPtr == LoadedNSC(file)
        a == NewAnalysis(1, file.m, nscPtr, file.zip, file.resources)
        domainConfigs == IF IsNil(nscPtr) THEN <<>>
                         ELSE flattenDomainConfig(Deref(nscPtr).DomainConfig)
        results == {check(a, now) : now \in Clocks(domainConfigs)}
    IN  {res.ret : res \in {r \in results : r.st = "ok"}}

\* the files named in the aggregation map
FilesOfRiskMap ==
    UNION { UNION { {riskMap[t][r][k] : k \in 1..Len(riskMap[t][r])} : r \in DOMAIN riskMap[t] }
            : t \in DOMAIN riskMap }

\* C11: when main has ended, the printed analyses are those of the files that
\* decode, each once, in input order and with the risks the file gives alone,
\* and the aggregation map names no file that does not decode.
C11_BatchIsolation ==
    pc \in {"exit", "panic"} =>
        /\ Len(printed) = Len(DecodedArgs)
        /\ \A k \in 1..Len(printed) :
               k <= Len(DecodedArgs) =>
                   /\ printed[k].File = DecodedArgs[k]
                   /\ printed[k].Risks \in RisksAlone(args[DecodedArgs[k]])
        /\ FilesOfRiskMap \subseteq {DecodedArgs[k] : k \in 1..Len(DecodedArgs)}

----------------------------------------------------------------------------
(* C12: descriptions of the risk types *)

\* C12: every risk check() returns has one of the 8 types, and Description()
\* gives that type a description of its own, never the "(unknown)" fallback.
C12_EveryTypeDescribed ==
    Returned =>
        \A k \in 1..Len(Risks) :
            /\ Risks[k].Type \in RiskType
            /\ Description(Risks[k].Type) # Unknown
            /\ \A t \in RiskType \ {Risks[k].Type} : Description(t) # Description(Risks[k].Type)

----------------------------------------------------------------------------
(* C13: SDK integers from 1 to 40 *)

\* C13: an analysed target SDK v in 1..40 has a major version in 1..13 that is
\* no less than the major version of any smaller SDK in the range, and is 13
\* above the highest mapped SDK; the defaults of the analysis allow cleartext
\* exactly below major 9 and expect an NSC exactly from major 7.
C13_SDKMapping ==
    Returned =>
        LET v == CurrentFile.m.UsesSDK.TargetSDKVersion
            major == Deref(analysis).TargetVersion
            defaults == Deref(analysis).defaults
        IN  v \in 1..40 =>
                /\ major \in 1..13
                /\ \A w \in 1..v : SDKVersionToAndroidMajor(w) <= major
                /\ v > SDKHighest => major = 13
                /\ defaults.AllowCleartext = (major < 9)
                /\ defaults.NSCPresence = (major >= 7)

\* SDK 30 was analysed as Android 11, which expects an NSC and forbids cleartext
C13_Witness ==
    /\ Returned
    /\ CurrentFile.m.UsesSDK.TargetSDKVersion = 30
    /\ Deref(analysis).TargetVersion = 11
    /\ Deref(analysis).defaults = [AllowCleartext |-> FALSE, NSCPresence |-> TRUE]

----------------------------------------------------------------------------
(* C14: the order of the flattening and of the domain-config risks *)

\* the nodes of a forest, each named by the positions that lead to it from the roots
RECURSIVE Paths(_)
Paths(forest) ==
    UNION { {<<k>>} \cup {<<k>> \o p : p \in Paths(forest[k].Children)} : k \in 1..Len(forest) }

RECURSIVE NodeAt(_, _)
NodeAt(forest, path) ==
    IF Len(path) = 1 THEN forest[path[1]]
    ELSE NodeAt(forest[path[1]].Children, Tail(path))

\* p is an ancestor of q, or p branches off to an earlier sibling than q does
PreOrderBefore(p, q) ==
    \E i \in 1..Len(q) :
        /\ \A j \in 1..(i - 1) : j <= Len(p) /\ p[j] = q[j]
        /\ i > Len(p) \/ p[i] < q[i]

\* the number of nodes that come before the node in pre-order
PreOrderIndex(forest, path) ==
    Cardinality({q \in Paths(forest) : PreOrderBefore(q, path)})

\* the risk is reported for a flattened node
IsSubConfigRisk(risk) ==
    Len(risk.Reason) >= 3 /\ risk.Reason[3] = Text(" sub config (index: ")

\* the domains of the node whose data begins with "http"
HttpDomains(node) ==
    {k \in 1..Len(node.Domains) : HasPrefix(node.Domains[k].Data, S_http)}

\* C14: where check() is about to run or has returned, the flattening holds
\* every node of the forest once, at its pre-order position (a parent before
\* its descendants, siblings in their order); every
\* domain-config risk names the position of the node it comes from, and the
\* risks of a node of smaller index come before those of a node of larger index.
C14_FlattenPreOrder ==
    (~IsNil(nsc) /\ pc \in {"Analyze", "Report"}) =>
        LET forest == Deref(nsc).DomainConfig
            flat == flattenDomainConfig(forest)
            Named(i) == {k \in 1..Len(Risks) : InSubConfig(Risks[k].Reason, i)}
        IN  /\ Len(flat) = Cardinality(Paths(forest))
            /\ \A p \in Paths(forest) : flat[PreOrderIndex(forest, p) + 1] = NodeAt(forest, p)
            /\ Returned =>
                   /\ \A k \in 1..Len(Risks) :
                          IsSubConfigRisk(Risks[k]) =>
                              \E i \in 0..(Len(flat) - 1) : k \in Named(i)
                   /\ \A p \in Paths(forest) :
                          LET i == PreOrderIndex(forest, p)
                              node == NodeAt(forest, p)
                          IN  /\ Cardinality({k \in Named(i) : Risks[k].Type = RiskMalformedNSC})
                                     = Cardinality(HttpDomains(node))
                              /\ (\E k \in Named(i) : Risks[k].Type = RiskPinningExpiration)
                                     => ~IsNil(node.PinSet)
                              /\ (\E k \in Named(i) : IsProxyReason(Risks[k].Reason))
                                     => ~IsNil(node.TrustAnchors)
                   /\ \A i, j \in 0..(Len(flat) - 1) :
                          i < j => \A k \in Named(i), l \in Named(j) : k < l

\* a root with one child and a following sibling: the child's risk, index 1,
\* came before the sibling's, index 2
C14_Witness ==
    /\ Returned
    /\ ~IsNil(nsc)
    /\ Len(Deref(nsc).DomainConfig) = 2
    /\ Len(Deref(nsc).DomainConfig[1].Children) = 1
    /\ \E k, l \in 1..Len(Risks) :
           /\ k < l
           /\ InSubConfig(Risks[k].Reason, 1)
           /\ InSubConfig(Risks[l].Reason, 2)
           /\ Risks[k].Type # Risks[l].Type

====
